---- MODULE Spec2Model ----
(***************************************************************************)
(* Streaming engine of fenix-bot-framework (src/SubredditStream.py):       *)
(* BoundedSet, the SubredditStream generator and the MultiStream           *)
(* supervisor, as one state machine.                                       *)
(*                                                                         *)
(* Conventions                                                             *)
(*  - a BoundedSet is the sequence of the keys of its OrderedDict, oldest  *)
(*    first (index 1 here is Python index 0);                              *)
(*  - an item is identified by a positive integer that is both its         *)
(*    dedup attribute and its created_utc (a larger id is a newer item);   *)
(*  - Python None is 0.                                                    *)
(***************************************************************************)
EXTENDS Integers, Sequences, FiniteSets, TLC

\* ------------------------------------------------------------------ bounds
\* number of distinct items a listing can ever return
MaxItem == 3
\* capacity of the BoundedSets of the model (the code's default is 1001)
max_items == 2
\* longest page a fetch returns (the code asks for at most 100)
MaxPage == 2
\* number of distinct items of each listing under MultiStream
MaxMultiItem == 2
\* capacity of the BoundedSet used on its own (room for a middle position)
SetMaxItems == 3
\* number of distinct items of the edited listing
MaxEdited == 1
\* number of distinct edit times an item can report
MaxEdit == 2
\* SubredditStream._wait_for_edit of the model (the code's default is 3)
wait_for_edit == 2
\* longest seen set a stream is constructed on when its cursor is examined
MaxSeen == 4

None == 0
Unbound == <<0>>
NoFile == <<0, 0>>
NoStream == "-"
StreamNames == {"submissions", "log", "modqueue", "spam", "edited"}

\* an item of the edited listing is the pair of its fullname and of its
\* `edited` field (0 is Python False: the edit has not propagated), written
\* as one number; the tuple (fullname, edited) is written the same way, and
\* an item of another listing is its fullname
Radix == 10
Pair(f, e) == (Radix * f) + e
IsTuple(x) == x >= Radix
fullname(i) == IF IsTuple(i) THEN i \div Radix ELSE i
edited(i) == IF IsTuple(i) THEN i % Radix ELSE 0

\* the items a listing can return
ItemsOf(s) ==
    IF s \in {"log", "modqueue"} THEN 1..MaxMultiItem
    ELSE IF s = "edited" THEN {Pair(f, e) : f \in 1..MaxEdited, e \in 0..MaxEdit}
    ELSE 1..MaxItem
AllItems == UNION {ItemsOf(s) : s \in StreamNames}

\* ------------------------------------------------------- sequence helpers
Range(S) == {S[k] : k \in 1..Len(S)}

Without(S, x) == SelectSeq(S, LAMBDA v : v # x)

RECURSIVE Reverse(_)
Reverse(S) == IF S = <<>> THEN <<>> ELSE Append(Reverse(Tail(S)), Head(S))

\* all sequences of distinct elements of D of length at most n
RECURSIVE DistinctSeqs(_, _)
DistinctSeqs(D, n) ==
    IF n = 0 THEN {<<>>}
    ELSE LET Shorter == DistinctSeqs(D, n - 1)
             Ext == {pd \in Shorter \X D : Len(pd[1]) = n - 1 /\ pd[2] \notin Range(pd[1])}
         IN  Shorter \cup {Append(pd[1], pd[2]) : pd \in Ext}

IsDescending(S) == \A k \in 1..(Len(S) - 1) : S[k] > S[k + 1]

\* the pages the source of listing s can return: newest first, at most MaxPage items
PagesOf(s) ==
    {p \in DistinctSeqs(ItemsOf(s), MaxPage) :
        /\ IsDescending(p)
        /\ \A j, k \in 1..Len(p) : j # k => fullname(p[j]) # fullname(p[k])}

\* ------------------------------------------------------------- BoundedSet
\* an _access that moves nothing
AccessNothing(S, x) == S

\* BoundedSet._access: move a present key to the end of the OrderedDict
Access(S, x) == IF x \in Range(S) THEN Append(Without(S, x), x) ELSE S

\* BoundedSet.__contains__: the answer, and the set the test leaves behind
ContainsResult(S, x) == x \in Range(Access(S, x))
ContainsEffect(S, x) == Access(S, x)

\* a BoundedSet.add that discards the newest item instead of the oldest
BSAddEvictNewest(S, x, m) ==
    LET A == Access(S, x)
        B == IF x \in Range(A) THEN A ELSE Append(A, x)
    IN  IF Len(B) > m THEN SubSeq(B, 1, m) ELSE B

\* BoundedSet.add with capacity m
BSAdd(S, x, m) ==
    LET A == Access(S, x)
        B == IF x \in Range(A) THEN A ELSE Append(A, x)
    IN  IF Len(B) > m THEN Tail(B) ELSE B

\* a BoundedSet.remove that pops the oldest item (popitem(last=False))
BSRemoveOldest(S, x) ==
    IF x \in Range(S) THEN Tail(Access(S, x)) ELSE S

\* a BoundedSet.remove without the _access of line 307: pops the newest item
BSRemovePopNewest(S, x) ==
    IF x \in Range(S) THEN SubSeq(S, 1, Len(S) - 1) ELSE S

\* BoundedSet.remove
BSRemove(S, x) ==
    IF x \in Range(S)
    THEN LET A == Access(S, x) IN SubSeq(A, 1, Len(A) - 1)
    ELSE S

\* BoundedSet.__getitem__ with a Python index k in -n..n-1
GetItem(S, k) == IF k >= 0 THEN S[k + 1] ELSE S[Len(S) + k + 1]


\* ------------------------------------------------------------------ state
VARIABLES
    names,         \* MultiStream.stream_names (or the one listing of a lone stream)
    seen,          \* SubredditStream._seen_attributes, per listing
    disk,          \* content of <cache>/<listing>.pkl, NoFile when there is none
    dirPresent,    \* the cache directory exists
    gpc,           \* position of each listing's generator
    before,        \* the generator's local `before`
    items,         \* the generator's local `items` (Unbound before the first fetch)
    idx,           \* position of the `for item in items` loop
    alive,         \* SubredditStream.stream_alive
    expired,       \* time() - last_item_time > max_time_before_full_fetch
    found,         \* the generator's local has_found_items
    fetch_tries,   \* the local fetch_tries of __get_edit_time, 0 outside a call
    raise_errors,  \* the raise_errors argument the generator was started with
    running,       \* the listing whose generator is executing, NoStream if none
    ret,           \* what the last next() handed to its caller
    req,           \* the request each generator issued last
    params,        \* SubredditStream.params, per listing
    counter,       \* SubredditStream._counter, per listing
    msPc,          \* position of MultiStream.streams(), "off" for a lone stream
    msI,           \* position of `for stream in self.stream_generators.values()`
    msJ,           \* position of the loop of MultiStream.shutdown()
    yielded,       \* history: attributes of the StreamItems each generator yielded
    addedSince,    \* history (lone stream): attributes added after each attribute
    lastOut,       \* history (lone stream): last item yielded in the current round
    errSeen,       \* history: the seen sets when the last error reached MultiStream
    invalidated,   \* history (MultiStream): targets forgotten since the last modqueue fetch
    unread,        \* history (MultiStream): the files the last build could not load
    bs,            \* a BoundedSet used on its own
    bsOp,          \* history: the last operation on bs, its argument, bs before it
    used,          \* requests the server has counted in the current quota window
    current_wait,  \* PerformanceCounter.current_wait, in ticks
    perfPc,        \* the supervisor of a PerformanceCounter: polling or at end_loop()
    perfLast,      \* history: what the PerformanceCounter.end_loop() that just returned read and did
    base,          \* ExponentialCounter._base, in ticks
    value,         \* ExponentialCounter.value, in ticks
    reset_value,   \* ExponentialCounter._value, the attribute reset() assigns
    incremented,   \* ExponentialCounter.incremented
    throttle_level,\* ExponentialCounter.throttle_level, in ticks
    reddit,        \* ExponentialCounter.reddit is not None
    expLast,       \* history: the last call on the ExponentialCounter and its sleeps
    expRound       \* history: what the ExponentialCounter saw since the last end_loop()

vars == <<names, seen, disk, dirPresent, gpc, before, items, idx, alive, expired,
          found, fetch_tries, raise_errors, running, ret, req, params, counter, msPc, msI,
          msJ, yielded, addedSince, lastOut, errSeen, invalidated, unread,
          bs, bsOp, used, current_wait, perfPc, perfLast, base, value,
          reset_value, incremented, throttle_level, reddit, expLast, expRound>>

\* the two pacers
perfVars == <<used, current_wait, perfPc, perfLast>>
expVars == <<base, value, reset_value, incremented, throttle_level, reddit,
             expLast, expRound>>
pacerVars == <<perfVars, expVars>>

\* what a generator step never writes
msVars == <<names, disk, dirPresent, raise_errors, params, counter,
            msPc, msI, msJ, errSeen, unread, bs, bsOp, pacerVars>>

hist == <<yielded, addedSince, lastOut>>

\* a fetch of the modqueue listing ends the watch on the forgotten targets
AfterFetch(s) == IF s = "modqueue" THEN {} ELSE invalidated

\* a request to the listing source: the call site, the cursor, the `only` parameter
Request(c, b, o) == [call |-> c, before |-> b, only |-> o]
NoRequest == Request("-", None, "-")

\* history (lone stream): the request the generator of s has just issued
Issued(s, r) == IF msPc = "off" THEN [req EXCEPT ![s] = r] ELSE req

\* lines 829-842: the generator's params (here the value of `only`, "-" if unset)
WireParams(o) == IF o = "submissions" THEN "links" ELSE o

Configured == Range(names)
Lone == msPc = "off"

Retnothing == [kind |-> "nothing", stream |-> NoStream, item |-> 0, exc |-> "-"]
RetItem(s, i) == [kind |-> "item", stream |-> s, item |-> i, exc |-> "-"]
RetNone(s) == [kind |-> "none", stream |-> s, item |-> 0, exc |-> "-"]
RetExc(s, e) == [kind |-> "exc", stream |-> s, item |-> 0, exc |-> e]

\* lines 652-703: _get_listing, the field a listing is deduplicated on
AttributeOf(s) ==
    IF s = "edited" THEN "edited" ELSE IF s = "log" THEN "id" ELSE "fullname"

\* an attribute of the edited listing that leaves the edit time out
AttrFullname(s, i) == fullname(i)

\* lines 812-819: the attribute of an item of a listing
Attr(s, i) ==
    IF AttributeOf(s) = "edited" THEN Pair(fullname(i), edited(i)) ELSE i

\* the ban_note of the items of the spam listing (a set of words): removed as
\* spam, removed but marked "not spam", confirmed spam, and no ban_note
NoNote == {"None"}
ban_note(i) ==
    CASE i = 1 -> {"spam"}
      [] i = 2 -> {"remove", "not", "spam"}
      [] i = 3 -> {"confirm", "spam"}
      [] OTHER -> NoNote

\* lines 707-735: __is_actually_spam
IsActuallySpam(note) ==
    IF note = NoNote THEN FALSE ELSE "spam" \in note /\ "not" \notin note

\* --------------------------------------------- SubredditStream.__generator
\* next(generator): where the generator resumes
Resumed(s) ==
    CASE gpc[s] = "new" -> "loop"
      [] gpc[s] = "atNone" -> "loop"
      [] gpc[s] = "atItem" -> "drain"
      [] OTHER -> gpc[s]

\* lines 824-842 run once, on the first next(): last_item_time = time()
PrimedTimer(s) == IF gpc[s] = "new" THEN FALSE ELSE expired[s]

\* the clock passes last_item_time + max_time_before_full_fetch
TimePasses(s) ==
    /\ running = s /\ gpc[s] = "loop" /\ ~expired[s]
    /\ expired' = [expired EXCEPT ![s] = TRUE]
    /\ UNCHANGED <<seen, gpc, before, items, idx, alive, found, running, ret>>
    /\ UNCHANGED <<req, invalidated, hist, msVars, fetch_tries>>

\* a pick among the four most recent attributes
CursorIndicesWide(n) == (n - 4)..(n - 1)

\* lines 868-873: the indices randint can return
CursorIndices(n) == (n - 3)..(n - 1)

\* line 874: `if isinstance(before, list): before = before[0]`; an attribute
\* is a string or a tuple, never a list
IsList(x) == FALSE
Cursor(x) == IF IsList(x) THEN fullname(x) ELSE x

\* lines 854-874: the cursor and the timer a round starts with, for a seen set S
\* and a timer state e: the set of pairs <<before, expired>>
CursorChoices(S, e) ==
    LET n == Len(S) IN
    IF n = 0 THEN {<<None, e>>}
    ELSE IF n = 1 THEN {<<GetItem(S, 0), e>>}
    ELSE IF e THEN {<<None, FALSE>>}
    ELSE {<<Cursor(GetItem(S, k)), e>> : k \in CursorIndices(n)}

\* lines 845-874: top of the loop and cursor selection
SelectCursor(s) ==
    /\ running = s /\ gpc[s] = "loop"
    /\ alive' = [alive EXCEPT ![s] = TRUE]
    /\ found' = [found EXCEPT ![s] = FALSE]
    /\ \E c \in CursorChoices(seen[s], expired[s]) :
         /\ before' = [before EXCEPT ![s] = c[1]]
         /\ expired' = [expired EXCEPT ![s] = c[2]]
    /\ gpc' = [gpc EXCEPT ![s] = "fetch"]
    /\ UNCHANGED <<seen, items, idx, running, ret>>
    /\ UNCHANGED <<req, invalidated, hist, msVars, fetch_tries>>

\* lines 877-879 and 900-902: the fetch returns page p
FetchPage(s, p) ==
    /\ running = s /\ gpc[s] = "fetch"
    /\ items' = [items EXCEPT ![s] = Reverse(p)]
    /\ idx' = [idx EXCEPT ![s] = 1]
    /\ gpc' = [gpc EXCEPT ![s] = "drain"]
    /\ UNCHANGED <<seen, before, alive, expired, found, running, ret>>
    /\ req' = Issued(s, Request("fetch", before[s], WireParams(params[s])))
    /\ invalidated' = AfterFetch(s)
    /\ UNCHANGED <<hist, msVars, fetch_tries>>

\* a remove_seen_attribute that drops the newest attribute, not the named one
ForgetNewestAttribute(S, a) ==
    IF a \in Range(S) THEN SubSeq(S, 1, Len(S) - 1) ELSE S

\* lines 574-576: SubredditStream.remove_seen_attribute
RemoveSeenAttribute(S, a) == BSRemove(S, a)

\* lines 884-888: BadRequest, the cursor is forgotten
FetchBadRequest(s) ==
    /\ running = s /\ gpc[s] = "fetch"
    /\ seen' = [seen EXCEPT ![s] = RemoveSeenAttribute(seen[s], before[s])]
    /\ gpc' = [gpc EXCEPT ![s] = "refetch"]
    /\ UNCHANGED <<before, items, idx, alive, expired, found, running, ret>>
    /\ req' = Issued(s, Request("fetch", before[s], WireParams(params[s])))
    /\ invalidated' = AfterFetch(s)
    /\ UNCHANGED <<hist, msVars, fetch_tries>>

\* lines 880-881 and 890-892: the fetch raises and the error leaves the generator
FetchRaises(s, e) ==
    /\ running = s /\ gpc[s] = "fetch"
    /\ e = "KeyboardInterrupt" \/ raise_errors[s]
    /\ gpc' = [gpc EXCEPT ![s] = "dead"]
    /\ running' = NoStream
    /\ ret' = RetExc(s, e)
    /\ UNCHANGED <<seen, before, items, idx, alive, expired, found>>
    /\ req' = Issued(s, Request("fetch", before[s], WireParams(params[s])))
    /\ invalidated' = AfterFetch(s)
    /\ UNCHANGED <<hist, msVars, fetch_tries>>

\* lines 893-902: the fetch raises, raise_errors is false: the error is swallowed
\* and line 902 reverses whatever `items` holds
FetchSwallowed(s) ==
    /\ running = s /\ gpc[s] = "fetch"
    /\ ~raise_errors[s]
    /\ alive' = [alive EXCEPT ![s] = FALSE]
    /\ IF items[s] = Unbound
       THEN \* UnboundLocalError leaves the generator
            /\ gpc' = [gpc EXCEPT ![s] = "dead"]
            /\ running' = NoStream
            /\ ret' = RetExc(s, "Unknown")
            /\ UNCHANGED <<items, idx>>
       ELSE /\ items' = [items EXCEPT ![s] = Reverse(items[s])]
            /\ idx' = [idx EXCEPT ![s] = 1]
            /\ gpc' = [gpc EXCEPT ![s] = "drain"]
            /\ UNCHANGED <<running, ret>>
    /\ UNCHANGED <<seen, before, expired, found>>
    /\ req' = Issued(s, Request("fetch", before[s], WireParams(params[s])))
    /\ invalidated' = AfterFetch(s)
    /\ UNCHANGED <<hist, msVars, fetch_tries>>

\* line 889: the cursorless refetch returns page p
RefetchPage(s, p) ==
    /\ running = s /\ gpc[s] = "refetch"
    /\ items' = [items EXCEPT ![s] = Reverse(p)]
    /\ idx' = [idx EXCEPT ![s] = 1]
    /\ gpc' = [gpc EXCEPT ![s] = "drain"]
    /\ UNCHANGED <<seen, before, alive, expired, found, running, ret>>
    /\ req' = Issued(s, Request("refetch", None, "-"))
    /\ UNCHANGED <<invalidated, hist, msVars, fetch_tries>>

\* line 889 raises: nothing in the handler catches it
RefetchRaises(s, e) ==
    /\ running = s /\ gpc[s] = "refetch"
    /\ gpc' = [gpc EXCEPT ![s] = "dead"]
    /\ running' = NoStream
    /\ ret' = RetExc(s, e)
    /\ UNCHANGED <<seen, before, items, idx, alive, expired, found>>
    /\ req' = Issued(s, Request("refetch", None, "-"))
    /\ UNCHANGED <<invalidated, hist, msVars, fetch_tries>>

\* an __attribute_yielded that never recognises an attribute
NeverYielded(S, a) == FALSE

\* lines 808-822: __attribute_yielded, the answer and the seen set it leaves
AttributeYielded(S, a) == ContainsResult(S, a)
AfterAttributeYielded(S, a) == ContainsEffect(S, a)

\* lines 750-752: __get_edit_time goes round its loop once more
EditPending(s) ==
    /\ AttributeOf(s) = "edited"
    /\ wait_for_edit > 0
    /\ edited(items[s][idx[s]]) = 0
    /\ fetch_tries <= wait_for_edit

\* lines 753-755: item._fetch() refreshes the item, which now reports e
EditFetch(s, e) ==
    /\ running = s /\ gpc[s] = "drain" /\ idx[s] <= Len(items[s])
    /\ EditPending(s)
    /\ items' = [items EXCEPT ![s][idx[s]] = Pair(fullname(@), e)]
    /\ fetch_tries' = fetch_tries + 1
    /\ UNCHANGED <<seen, gpc, before, idx, alive, expired, found, running, ret>>
    /\ UNCHANGED <<req, invalidated, hist, msVars>>

\* lines 905-909: the item was already yielded
DrainSeen(s) ==
    /\ running = s /\ gpc[s] = "drain" /\ idx[s] <= Len(items[s])
    /\ ~EditPending(s)
    /\ fetch_tries' = 0
    /\ LET a == Attr(s, items[s][idx[s]]) IN
         /\ AttributeYielded(seen[s], a)
         /\ seen' = [seen EXCEPT ![s] = AfterAttributeYielded(seen[s], a)]
    /\ idx' = [idx EXCEPT ![s] = idx[s] + 1]
    /\ UNCHANGED <<gpc, before, items, alive, expired, found, running, ret>>
    /\ UNCHANGED <<req, invalidated, hist, msVars>>

\* lines 905-913: a new item of the spam listing is recorded, then dropped
\* by the filter of lines 912-913
DrainNotSpam(s) ==
    /\ running = s /\ gpc[s] = "drain" /\ idx[s] <= Len(items[s])
    /\ ~EditPending(s)
    /\ fetch_tries' = 0
    /\ LET i == items[s][idx[s]]
           a == Attr(s, i)
       IN  /\ ~AttributeYielded(seen[s], a)
           /\ s = "spam" /\ ~IsActuallySpam(ban_note(i))
           /\ found' = [found EXCEPT ![s] = TRUE]
           /\ seen' = [seen EXCEPT
                         ![s] = BSAdd(AfterAttributeYielded(seen[s], a), a, max_items)]
    /\ idx' = [idx EXCEPT ![s] = idx[s] + 1]
    /\ UNCHANGED <<gpc, before, items, alive, expired, running, ret>>
    /\ UNCHANGED <<req, invalidated, hist, msVars>>

\* lines 905-915: a new item is recorded and yielded
DrainNew(s) ==
    /\ running = s /\ gpc[s] = "drain" /\ idx[s] <= Len(items[s])
    /\ ~EditPending(s)
    /\ fetch_tries' = 0
    /\ LET i == items[s][idx[s]]
           a == Attr(s, i)
       IN  /\ ~AttributeYielded(seen[s], a)
           /\ s = "spam" => IsActuallySpam(ban_note(i))
           /\ found' = [found EXCEPT ![s] = TRUE]
           /\ seen' = [seen EXCEPT
                         ![s] = BSAdd(AfterAttributeYielded(seen[s], a), a, max_items)]
           /\ ret' = RetItem(s, i)
           /\ yielded' = [yielded EXCEPT ![s] = @ \cup {a}]
           /\ IF Lone
              THEN /\ addedSince' = [addedSince EXCEPT
                        ![s] = [b \in ItemsOf(s) |->
                                  IF b = a THEN {} ELSE addedSince[s][b] \cup {a}]]
                   /\ lastOut' = [lastOut EXCEPT ![s] = i]
              ELSE UNCHANGED <<addedSince, lastOut>>
    /\ expired' = [expired EXCEPT ![s] = FALSE]
    /\ idx' = [idx EXCEPT ![s] = idx[s] + 1]
    /\ gpc' = [gpc EXCEPT ![s] = "atItem"]
    /\ running' = NoStream
    /\ UNCHANGED <<before, items, alive, req, invalidated>>
    /\ UNCHANGED msVars

\* lines 917-928: the page is drained, the terminator is yielded
\* (reset() and increment() of the default PerformanceCounter do nothing).
\* The locals before, has_found_items and the loop position are dead at the
\* terminator (lines 853-878 and 905 assign them before any read), and so is
\* `items` unless a swallowed error can reach line 902 (raise_errors false):
\* they are put back to their initial values.
DrainEnd(s) ==
    /\ running = s /\ gpc[s] = "drain" /\ idx[s] > Len(items[s])
    /\ gpc' = [gpc EXCEPT ![s] = "atNone"]
    /\ running' = NoStream
    /\ ret' = RetNone(s)
    /\ lastOut' = [lastOut EXCEPT ![s] = 0]
    /\ before' = [before EXCEPT ![s] = None]
    /\ found' = [found EXCEPT ![s] = FALSE]
    /\ idx' = [idx EXCEPT ![s] = 1]
    /\ items' = [items EXCEPT ![s] = IF raise_errors[s] THEN Unbound ELSE @]
    /\ UNCHANGED <<seen, alive, expired>>
    /\ UNCHANGED <<req, yielded, addedSince, invalidated, msVars, fetch_tries>>

\* ------------------------------------------------ a lone SubredditStream
\* the caller of SubredditStream.stream() asks for the next value
SingleNext(s) ==
    /\ Lone /\ running = NoStream
    /\ s \in Configured
    /\ gpc[s] \in {"new", "atItem", "atNone"}
    /\ running' = s
    /\ gpc' = [gpc EXCEPT ![s] = Resumed(s)]
    /\ expired' = [expired EXCEPT ![s] = PrimedTimer(s)]
    /\ ret' = Retnothing
    /\ UNCHANGED <<seen, before, items, idx, alive, found>>
    /\ UNCHANGED <<req, invalidated, hist, msVars, fetch_tries>>

\* the caller forgets attribute a between two next()
SingleForget(s, a) ==
    /\ Lone /\ running = NoStream
    /\ s \in Configured /\ a \in ItemsOf(s)
    /\ gpc[s] \in {"atItem", "atNone"}
    /\ seen' = [seen EXCEPT ![s] = RemoveSeenAttribute(seen[s], a)]
    /\ UNCHANGED <<gpc, before, items, idx, alive, expired, found, running, ret>>
    /\ UNCHANGED <<req, invalidated, hist, msVars, fetch_tries>>

\* no operation on bs yet
NoOp == [op |-> "-", arg |-> 0, prev |-> <<>>, res |-> 0]

EmptyMap == [s \in StreamNames |-> <<>>]
\* ------------------------------------------------------------ the pacers
\* time() counts seconds as a float; the model counts ticks of 1/300 s, in
\* which the default min_wait and two steps of throttling are whole numbers
Seconds(n) == 300 * n

Abs(x) == IF x < 0 THEN 0 - x ELSE x

Sign(x) == IF x < 0 THEN 0 - 1 ELSE IF x > 0 THEN 1 ELSE 0

\* line 31
MIN_WAIT == 1
\* line 32
MAX_WAIT == 16
\* line 30: getboolean("Ratelimit_Exhaustion", True), and True compares as 1
RATELIMIT_EXHAUSTION == 1
\* line 34: SAFETY_THRESHOLD = 0.9, as a fraction
SafetyNum == 9
SafetyDen == 10
\* line 61: the quota the PerformanceCounter is constructed with and its
\* window in seconds, a tenth and a bit of the defaults (1000 calls in 600 s)
\* with the same min_wait of 2/3 s
ratelimit_requests == 120
ratelimit_cooldown == 72

\* line 239: the window _calculate_ratelimit_used() assumes, in seconds
ratelimit_window == 600

\* line 65
target_requests == (ratelimit_requests * SafetyNum) \div SafetyDen

\* line 67, in ticks
min_wait == (Seconds(ratelimit_cooldown) * SafetyDen) \div (ratelimit_requests * SafetyNum)

\* lines 81-86 called with current_wait = w: abs(random()*max_jitter - max_jitter/2)
\* lies in [0, |w|/32]; j picks the least value or one near the greatest
jitter(w, j) == j * (Abs(w) \div 40)

\* lines 106-111: the safe calls left, or the reserve once those are used up
CallsRemaining(u) ==
    IF target_requests - u <= 0 THEN ratelimit_requests - u ELSE target_requests - u

\* lines 110-122: the reserve is down to ten calls or fewer
ReserveExhausted(u) == target_requests - u <= 0 /\ ratelimit_requests - u <= 10

\* lines 125-127
RawWait(tr, cr, lrd) == ((SafetyDen * tr) \div (SafetyNum * cr)) + lrd

\* lines 132-135: calls_used / time_elapsed > calls_remaining / time_remaining,
\* for non-zero time_elapsed and time_remaining of either sign
UsageTooFast(u, te, cr, tr) == Sign((u * tr) - (cr * te)) * Sign(te) * Sign(tr) > 0

\* the limits of lines 142-150 applied in the other order
ClampWaitLowerFirst(w, tr) ==
    LET raised == IF w < min_wait THEN min_wait ELSE w
    IN  IF raised > tr THEN tr ELSE raised

\* lines 142-150: the upper limit is applied first, the lower limit last
ClampWait(w, tr) ==
    LET capped == IF w > tr THEN tr ELSE w
    IN  IF capped < min_wait THEN min_wait ELSE capped

\* lines 98-159: PerformanceCounter.end_loop() on used = u, reset_timestamp - now
\* = tr, last_run_duration = lrd, with current_wait = w before the call
end_loop(u, tr, lrd, j, w) ==
    IF ReserveExhausted(u)
    THEN IF tr < 0
         THEN [outcome |-> "ValueError", wait |-> w, slept |-> 0]
         ELSE [outcome |-> "exhausted", wait |-> w, slept |-> tr]
    ELSE LET cr  == CallsRemaining(u)
             te  == Seconds(ratelimit_cooldown) - tr
             raw == RawWait(tr, cr, lrd)
             adj == IF UsageTooFast(u, te, cr, tr) THEN raw + lrd ELSE raw
             jit == adj + Abs(jitter(adj, j))
             cw  == ClampWait(jit, tr)
         IN  IF te = 0 \/ tr = 0
             THEN [outcome |-> "ZeroDivisionError", wait |-> raw, slept |-> 0]
             ELSE [outcome |-> "slept", wait |-> cw, slept |-> Abs(cw)]

NoEndLoop == [outcome |-> "none", time_remaining |-> 0, last_run_duration |-> 0,
              calls_used |-> 0, kept |-> 0, slept |-> 0]

\* the last end_loop() is over and its round has been polled
Polling == [NoEndLoop EXCEPT !.outcome = "polling"]

\* lines 61-74: a PerformanceCounter as constructed, the quota window untouched
PerformanceCounterInit ==
    /\ used = 0
    /\ current_wait = min_wait
    /\ perfPc = "round"
    /\ perfLast = NoEndLoop

NoCall == [op |-> "init", prev |-> "init", outcome |-> "-", slept |-> <<>>,
           remaining |-> 0, next_reset |-> 0]

\* lines 182-189: ExponentialCounter(), which has no _value attribute yet
ExponentialCounterInit ==
    /\ base = Seconds(MIN_WAIT)
    /\ value = Seconds(MIN_WAIT)
    /\ reset_value = 0
    /\ incremented = FALSE
    /\ throttle_level = Seconds(MAX_WAIT)
    /\ expLast = NoCall
    /\ expRound = FALSE

\* the pacers of the listings' specifications: constructed and left alone
PacersIdle ==
    /\ PerformanceCounterInit
    /\ ExponentialCounterInit
    /\ reddit = FALSE

NoSets == [s \in StreamNames |-> {}]

\* a SubredditStream constructed on an empty cache, its generator created
\* with either value of raise_errors
InitStream ==
    /\ names = <<"submissions">>
    /\ seen = EmptyMap
    /\ disk = [s \in StreamNames |-> NoFile]
    /\ dirPresent = FALSE
    /\ gpc = [s \in StreamNames |-> IF s = "submissions" THEN "new" ELSE "none"]
    /\ before = [s \in StreamNames |-> None]
    /\ items = [s \in StreamNames |-> Unbound]
    /\ idx = [s \in StreamNames |-> 1]
    /\ alive = [s \in StreamNames |-> TRUE]
    /\ expired = [s \in StreamNames |-> FALSE]
    /\ found = [s \in StreamNames |-> FALSE]
    /\ fetch_tries = 0
    /\ \E r \in BOOLEAN :
         raise_errors = [s \in StreamNames |-> IF s = "submissions" THEN r ELSE FALSE]
    /\ running = NoStream
    /\ ret = Retnothing
    /\ req = [s \in StreamNames |-> NoRequest]
    /\ params = [s \in StreamNames |-> "-"]
    /\ counter = [s \in StreamNames |-> "PerformanceCounter"]
    /\ msPc = "off"
    /\ msI = 1
    /\ msJ = 1
    /\ yielded = NoSets
    /\ addedSince = [s \in StreamNames |-> [a \in ItemsOf(s) |-> {}]]
    /\ lastOut = [s \in StreamNames |-> 0]
    /\ errSeen = EmptyMap
    /\ invalidated = {}
    /\ unread = {}
    /\ bs = <<>>
    /\ bsOp = NoOp
    /\ PacersIdle

NextStream ==
    \/ \E s \in StreamNames : SingleNext(s)
    \/ \E s \in StreamNames, a \in AllItems : SingleForget(s, a)
    \/ \E s \in StreamNames : TimePasses(s)
    \/ \E s \in StreamNames : SelectCursor(s)
    \/ \E s \in StreamNames : \E p \in PagesOf(s) : FetchPage(s, p)
    \/ \E s \in StreamNames : FetchBadRequest(s)
    \/ \E s \in StreamNames : \E e \in {"Transport", "Unknown", "KeyboardInterrupt"} : FetchRaises(s, e)
    \/ \E s \in StreamNames : FetchSwallowed(s)
    \/ \E s \in StreamNames : \E p \in PagesOf(s) : RefetchPage(s, p)
    \/ \E s \in StreamNames : \E e \in {"BadRequest", "Transport", "Unknown", "KeyboardInterrupt"} : RefetchRaises(s, e)
    \/ \E s \in StreamNames : DrainSeen(s)
    \/ \E s \in StreamNames : DrainNew(s)
    \/ \E s \in StreamNames : DrainEnd(s)

SpecStream == InitStream /\ [][NextStream]_vars

\* ------------------------------------ the spam and the edited listings alone
\* a SubredditStream over the spam or over the edited listing, constructed on
\* an empty cache, its generator created as MultiStream creates it
InitListing ==
    /\ \E l \in {"spam", "edited"} :
         /\ names = <<l>>
         /\ gpc = [s \in StreamNames |-> IF s = l THEN "new" ELSE "none"]
         /\ raise_errors = [s \in StreamNames |-> s = l]
    /\ seen = EmptyMap
    /\ disk = [s \in StreamNames |-> NoFile]
    /\ dirPresent = FALSE
    /\ before = [s \in StreamNames |-> None]
    /\ items = [s \in StreamNames |-> Unbound]
    /\ idx = [s \in StreamNames |-> 1]
    /\ alive = [s \in StreamNames |-> TRUE]
    /\ expired = [s \in StreamNames |-> FALSE]
    /\ found = [s \in StreamNames |-> FALSE]
    /\ fetch_tries = 0
    /\ running = NoStream
    /\ ret = Retnothing
    /\ req = [s \in StreamNames |-> NoRequest]
    /\ params = [s \in StreamNames |-> "-"]
    /\ counter = [s \in StreamNames |-> "PerformanceCounter"]
    /\ msPc = "off"
    /\ msI = 1
    /\ msJ = 1
    /\ yielded = NoSets
    /\ addedSince = [s \in StreamNames |-> [a \in ItemsOf(s) |-> {}]]
    /\ lastOut = [s \in StreamNames |-> 0]
    /\ errSeen = EmptyMap
    /\ invalidated = {}
    /\ unread = {}
    /\ bs = <<>>
    /\ bsOp = NoOp
    /\ PacersIdle

NextListing ==
    \/ \E s \in StreamNames : SingleNext(s)
    \/ \E s \in StreamNames : TimePasses(s)
    \/ \E s \in StreamNames : SelectCursor(s)
    \/ \E s \in StreamNames : \E p \in PagesOf(s) : FetchPage(s, p)
    \/ \E s \in StreamNames : FetchBadRequest(s)
    \/ \E s \in StreamNames : \E p \in PagesOf(s) : RefetchPage(s, p)
    \/ \E s \in StreamNames : \E e \in 0..MaxEdit : EditFetch(s, e)
    \/ \E s \in StreamNames : DrainSeen(s)
    \/ \E s \in StreamNames : DrainNotSpam(s)
    \/ \E s \in StreamNames : DrainNew(s)
    \/ \E s \in StreamNames : DrainEnd(s)

SpecListing == InitListing /\ [][NextListing]_vars

\* ------------------------------------------------------------ MultiStream
\* MultiStream.params and MultiStream.counter of the model's supervisor
MsParams == [s \in StreamNames |-> IF s = "modqueue" THEN "comments" ELSE "-"]
MsCounter == "PerformanceCounter"

\* the fields of the modlog entry with id i: .action, and .target_fullname as
\* the attribute of the modqueue item it names
LogAction(i) ==
    IF i = 1 THEN "editflair" ELSE IF i % 2 = 0 THEN "removelink" ELSE "approvecomment"
LogTarget(i) == i

\* lines 477-481
InvalidatingActions ==
    {"approvelink", "removelink", "spamlink", "approvecomment", "removecomment", "spamcomment"}

\* lines 474-482: the condition of the cross-stream invalidation
Invalidates(item) ==
    /\ item.stream = "log"
    /\ "modqueue" \in Configured
    /\ LogAction(item.item) \in InvalidatingActions

\* position of a in S, 0 when absent
PosIn(S, a) == IF a \in Range(S) THEN CHOOSE k \in 1..Len(S) : S[k] = a ELSE 0

\* lines 465-466: the next generator is asked for a value
MsPoll ==
    /\ msPc = "for" /\ msI <= Len(names)
    /\ LET s == names[msI] IN
         /\ gpc[s] # "dead"
         /\ running' = s
         /\ gpc' = [gpc EXCEPT ![s] = Resumed(s)]
         /\ expired' = [expired EXCEPT ![s] = PrimedTimer(s)]
    /\ msPc' = "next"
    /\ ret' = Retnothing
    /\ UNCHANGED <<pacerVars, fetch_tries, unread, bs, bsOp, names, seen, disk, dirPresent, before, items, idx, alive, found,
                   raise_errors, req, params, counter, msI, msJ,
                   errSeen, invalidated, hist>>

\* lines 465-466: a finished generator raises StopIteration at once
MsSkipFinished ==
    /\ msPc = "for" /\ msI <= Len(names)
    /\ gpc[names[msI]] = "dead"
    /\ msI' = msI + 1
    /\ UNCHANGED <<pacerVars, fetch_tries, unread, bs, bsOp, names, seen, disk, dirPresent, gpc, before, items, idx, alive,
                   expired, found, raise_errors, running, ret, req, params, counter,
                   msPc, msJ, errSeen, invalidated, hist>>

\* a supervisor that saves a stream's position at its terminator
MsTerminatorSaving ==
    /\ msPc = "next" /\ running = NoStream /\ ret.kind = "none"
    /\ msI' = msI + 1
    /\ msPc' = "for"
    /\ ret' = Retnothing
    /\ dirPresent' = TRUE
    /\ disk' = [disk EXCEPT ![ret.stream] = seen[ret.stream]]
    /\ UNCHANGED <<pacerVars, fetch_tries, unread, bs, bsOp, names, seen, gpc, before, items, idx, alive,
                   expired, found, raise_errors, running, req, params, counter,
                   msJ, errSeen, invalidated, hist>>

\* lines 467-470: the terminator, on to the next stream
MsTerminator ==
    /\ msPc = "next" /\ running = NoStream /\ ret.kind = "none"
    /\ msI' = msI + 1
    /\ msPc' = "for"
    /\ ret' = Retnothing
    /\ UNCHANGED <<pacerVars, fetch_tries, unread, bs, bsOp, names, seen, disk, dirPresent, gpc, before, items, idx, alive,
                   expired, found, raise_errors, running, req, params, counter,
                   msJ, errSeen, invalidated, hist>>

\* lines 471-492: the item is logged, the modqueue entry it actions is
\* forgotten, and the item is handed to the consumer
MsForward ==
    /\ msPc = "next" /\ running = NoStream /\ ret.kind = "item"
    /\ IF Invalidates(ret)
       THEN LET F == LogTarget(ret.item) IN
            /\ seen' = [seen EXCEPT !["modqueue"] = RemoveSeenAttribute(@, F)]
            /\ invalidated' = invalidated \cup {<<F, PosIn(seen["modqueue"], F)>>}
       ELSE UNCHANGED <<seen, invalidated>>
    /\ msPc' = "handed"
    /\ UNCHANGED <<pacerVars, fetch_tries, unread, bs, bsOp, names, disk, dirPresent, gpc, before, items, idx, alive, expired,
                   found, raise_errors, running, ret, req, params, counter, msI, msJ,
                   errSeen, hist>>

\* lines 471-473 and 515-516: log_streams raises (RedditLogs.log_log fails on
\* an action missing from its table, or on a target that is no t1/t2/t3
\* thing), the error is logged and the while loop starts over
MsLogRaises ==
    /\ msPc = "next" /\ running = NoStream /\ ret.kind = "item"
    /\ ret.stream = "log"
    /\ msPc' = "for"
    /\ msI' = 1
    /\ ret' = Retnothing
    /\ UNCHANGED <<pacerVars, fetch_tries, unread, bs, bsOp, names, seen, disk, dirPresent, gpc, before, items, idx, alive,
                   expired, found, raise_errors, running, req, params, counter,
                   msJ, errSeen, invalidated, hist>>

\* line 492: the consumer asks for the next item
ConsumerNext ==
    /\ msPc = "handed"
    /\ LET s == names[msI] IN
         /\ running' = s
         /\ gpc' = [gpc EXCEPT ![s] = Resumed(s)]
    /\ msPc' = "next"
    /\ ret' = Retnothing
    /\ UNCHANGED <<pacerVars, fetch_tries, unread, bs, bsOp, names, seen, disk, dirPresent, before, items, idx, alive, expired,
                   found, raise_errors, req, params, counter, msI, msJ,
                   errSeen, invalidated, hist>>

\* line 492: the consumer closes the iterator, GeneratorExit leaves streams()
ConsumerClose ==
    /\ msPc = "handed"
    /\ msPc' = "closed"
    /\ UNCHANGED <<pacerVars, fetch_tries, unread, bs, bsOp, names, seen, disk, dirPresent, gpc, before, items, idx, alive,
                   expired, found, raise_errors, running, ret, req, params, counter,
                   msI, msJ, errSeen, invalidated, hist>>

\* a KeyboardInterrupt at the head of the for loop or in end_loop's sleep:
\* no handler of lines 494-516 takes it
Interrupt ==
    /\ msPc = "for"
    /\ msPc' = "interrupted"
    /\ UNCHANGED <<pacerVars, fetch_tries, unread, bs, bsOp, names, seen, disk, dirPresent, gpc, before, items, idx, alive,
                   expired, found, raise_errors, running, ret, req, params, counter,
                   msI, msJ, errSeen, invalidated, hist>>

\* line 493: the round is over, counter.end_loop() returns
MsEndLoop ==
    /\ msPc = "for" /\ msI > Len(names)
    /\ msI' = 1
    /\ UNCHANGED <<pacerVars, fetch_tries, unread, bs, bsOp, names, seen, disk, dirPresent, gpc, before, items, idx, alive,
                   expired, found, raise_errors, running, ret, req, params, counter,
                   msPc, msJ, errSeen, invalidated, hist>>

\* lines 494-514: a ResponseException (BadRequest is one), RequestException
\* or ServerError from a generator: log, sleep, rebuild_streams()
MsTransportError ==
    /\ msPc = "next" /\ running = NoStream /\ ret.kind = "exc"
    /\ ret.exc \in {"Transport", "BadRequest"}
    /\ errSeen' = seen
    /\ msPc' = "shutdown"
    /\ msJ' = 1
    /\ ret' = Retnothing
    /\ UNCHANGED <<pacerVars, fetch_tries, unread, bs, bsOp, names, seen, disk, dirPresent, gpc, before, items, idx, alive,
                   expired, found, raise_errors, running, req, params, counter,
                   msI, invalidated, hist>>

\* lines 515-516: any other Exception is logged and the while loop starts over
MsUnknownError ==
    /\ msPc = "next" /\ running = NoStream /\ ret.kind = "exc"
    /\ ret.exc = "Unknown"
    /\ msPc' = "for"
    /\ msI' = 1
    /\ ret' = Retnothing
    /\ UNCHANGED <<pacerVars, fetch_tries, unread, bs, bsOp, names, seen, disk, dirPresent, gpc, before, items, idx, alive,
                   expired, found, raise_errors, running, req, params, counter,
                   msJ, errSeen, invalidated, hist>>

\* lines 880-881: the KeyboardInterrupt of a fetch leaves streams()
MsInterrupted ==
    /\ msPc = "next" /\ running = NoStream /\ ret.kind = "exc"
    /\ ret.exc = "KeyboardInterrupt"
    /\ msPc' = "interrupted"
    /\ UNCHANGED <<pacerVars, fetch_tries, unread, bs, bsOp, names, seen, disk, dirPresent, gpc, before, items, idx, alive,
                   expired, found, raise_errors, running, ret, req, params, counter,
                   msI, msJ, errSeen, invalidated, hist>>

\* lines 579-598: _save_seen_attributes writes the file
SaveWritten(S) == S

\* lines 416-417 and 593-598: the seen set of the next stream is saved
MsSave ==
    /\ msPc = "shutdown" /\ msJ <= Len(names)
    /\ dirPresent' = TRUE
    /\ disk' = [disk EXCEPT ![names[msJ]] = SaveWritten(seen[names[msJ]])]
    /\ msJ' = msJ + 1
    /\ UNCHANGED <<pacerVars, fetch_tries, unread, bs, bsOp, names, seen, gpc, before, items, idx, alive, expired, found,
                   raise_errors, running, ret, req, params, counter, msPc, msI,
                   errSeen, invalidated, hist>>

\* lines 594-595: the directory cannot be created, the save returns silently
MsSaveSkipped ==
    /\ msPc = "shutdown" /\ msJ <= Len(names)
    /\ ~dirPresent
    /\ msJ' = msJ + 1
    /\ UNCHANGED <<pacerVars, fetch_tries, unread, bs, bsOp, names, seen, disk, dirPresent, gpc, before, items, idx, alive,
                   expired, found, raise_errors, running, ret, req, params, counter,
                   msPc, msI, errSeen, invalidated, hist>>

\* lines 597-598: open() or pickle.dump() raises; the error passes through
\* shutdown(), rebuild_streams() and the handler that called it
MsSaveRaises ==
    /\ msPc = "shutdown" /\ msJ <= Len(names)
    /\ msPc' = "crashed"
    /\ UNCHANGED <<pacerVars, fetch_tries, unread, bs, bsOp, names, seen, disk, dirPresent, gpc, before, items, idx, alive,
                   expired, found, raise_errors, running, ret, req, params, counter,
                   msI, msJ, errSeen, invalidated, hist>>

\* a __load_seen_attributes that returns the file newest first
LoadReversed(file, readable) ==
    IF file = NoFile \/ ~readable THEN <<>> ELSE Reverse(file)

\* lines 601-617: __load_seen_attributes
LoadSeenAttributes(file, readable) ==
    IF file = NoFile \/ ~readable THEN <<>> ELSE file

\* lines 399-411 and 426-430: every stream is discarded and built again
\* (the files in `unreadable` raise when they are loaded)
MsBuild(unreadable) ==
    /\ msPc = "shutdown" /\ msJ > Len(names)
    /\ unreadable \subseteq {s \in Configured : disk[s] # NoFile}
    /\ seen' = [s \in StreamNames |->
                  IF s \in Configured
                  THEN LoadSeenAttributes(disk[s], s \notin unreadable)
                  ELSE seen[s]]
    /\ params' = [s \in StreamNames |-> IF s \in Configured THEN MsParams[s] ELSE params[s]]
    /\ counter' = [s \in StreamNames |-> IF s \in Configured THEN MsCounter ELSE counter[s]]
    /\ raise_errors' = [s \in StreamNames |-> IF s \in Configured THEN TRUE ELSE raise_errors[s]]
    /\ gpc' = [s \in StreamNames |-> IF s \in Configured THEN "new" ELSE gpc[s]]
    /\ alive' = [s \in StreamNames |-> IF s \in Configured THEN TRUE ELSE alive[s]]
    /\ before' = [s \in StreamNames |-> IF s \in Configured THEN None ELSE before[s]]
    /\ items' = [s \in StreamNames |-> IF s \in Configured THEN Unbound ELSE items[s]]
    /\ idx' = [s \in StreamNames |-> IF s \in Configured THEN 1 ELSE idx[s]]
    /\ found' = [s \in StreamNames |-> IF s \in Configured THEN FALSE ELSE found[s]]
    /\ expired' = [s \in StreamNames |-> IF s \in Configured THEN FALSE ELSE expired[s]]
    /\ req' = [s \in StreamNames |-> IF s \in Configured THEN NoRequest ELSE req[s]]
    /\ msPc' = "rebuilt"
    /\ unread' = unreadable
    /\ UNCHANGED <<pacerVars, fetch_tries, bs, bsOp, names, disk, dirPresent, running, ret, msI, msJ,
                   errSeen, invalidated, hist>>

\* line 430 and back to line 463: the while loop starts over
MsRestart ==
    /\ msPc = "rebuilt"
    /\ msPc' = "for"
    /\ msI' = 1
    /\ errSeen' = EmptyMap
    /\ unread' = {}
    /\ UNCHANGED <<pacerVars, fetch_tries, bs, bsOp, names, seen, disk, dirPresent, gpc, before, items, idx, alive,
                   expired, found, raise_errors, running, ret, req, params, counter,
                   msJ, invalidated, hist>>

\* lines 385-396: MultiStream(sub, stream_names = the log and modqueue listings)
\* on an empty cache
Init ==
    /\ names = <<"log", "modqueue">>
    /\ seen = EmptyMap
    /\ disk = [s \in StreamNames |-> NoFile]
    /\ dirPresent \in BOOLEAN
    /\ gpc = [s \in StreamNames |-> IF s \in {"log", "modqueue"} THEN "new" ELSE "none"]
    /\ before = [s \in StreamNames |-> None]
    /\ items = [s \in StreamNames |-> Unbound]
    /\ idx = [s \in StreamNames |-> 1]
    /\ alive = [s \in StreamNames |-> TRUE]
    /\ expired = [s \in StreamNames |-> FALSE]
    /\ found = [s \in StreamNames |-> FALSE]
    /\ fetch_tries = 0
    /\ raise_errors = [s \in StreamNames |-> s \in {"log", "modqueue"}]
    /\ running = NoStream
    /\ ret = Retnothing
    /\ req = [s \in StreamNames |-> NoRequest]
    /\ params = [s \in StreamNames |-> IF s \in {"log", "modqueue"} THEN MsParams[s] ELSE "-"]
    /\ counter = [s \in StreamNames |-> MsCounter]
    /\ msPc = "for"
    /\ msI = 1
    /\ msJ = 1
    /\ yielded = NoSets
    /\ addedSince = [s \in StreamNames |-> [a \in ItemsOf(s) |-> {}]]
    /\ lastOut = [s \in StreamNames |-> 0]
    /\ errSeen = EmptyMap
    /\ invalidated = {}
    /\ unread = {}
    /\ bs = <<>>
    /\ bsOp = NoOp
    /\ PacersIdle

Next ==
    \/ MsPoll
    \/ MsSkipFinished
    \/ MsTerminator
    \/ MsForward
    \/ MsLogRaises
    \/ ConsumerNext
    \/ ConsumerClose
    \/ Interrupt
    \/ MsEndLoop
    \/ MsTransportError
    \/ MsUnknownError
    \/ MsInterrupted
    \/ MsSave
    \/ MsSaveSkipped
    \/ MsSaveRaises
    \/ \E u \in SUBSET StreamNames : MsBuild(u)
    \/ MsRestart
    \/ \E s \in StreamNames : TimePasses(s)
    \/ \E s \in StreamNames : SelectCursor(s)
    \/ \E s \in StreamNames : \E p \in PagesOf(s) : FetchPage(s, p)
    \/ \E s \in StreamNames : FetchBadRequest(s)
    \/ \E s \in StreamNames : \E e \in {"Transport", "Unknown", "KeyboardInterrupt"} : FetchRaises(s, e)
    \/ \E s \in StreamNames : \E p \in PagesOf(s) : RefetchPage(s, p)
    \/ \E s \in StreamNames : \E e \in {"BadRequest", "Transport", "Unknown", "KeyboardInterrupt"} : RefetchRaises(s, e)
    \/ \E s \in StreamNames : DrainSeen(s)
    \/ \E s \in StreamNames : DrainNew(s)
    \/ \E s \in StreamNames : DrainEnd(s)

Spec == Init /\ [][Next]_vars

\* ----------------------------------------- the cursor of a loaded stream
\* a SubredditStream constructed on a cache file that holds the seen set S
\* (the pickled BoundedSet comes back with its own capacity, lines 601-617),
\* with or without an `only` parameter of the caller, its generator created
\* as MultiStream creates it
InitCursor ==
    /\ names = <<"submissions">>
    /\ \E S \in DistinctSeqs(1..MaxSeen, MaxSeen) :
         /\ disk = [s \in StreamNames |-> IF s = "submissions" /\ S # <<>> THEN S ELSE NoFile]
         /\ dirPresent = (S # <<>>)
         /\ seen = [s \in StreamNames |->
                      IF s = "submissions" THEN LoadSeenAttributes(disk[s], TRUE) ELSE <<>>]
    /\ gpc = [s \in StreamNames |-> IF s = "submissions" THEN "new" ELSE "none"]
    /\ before = [s \in StreamNames |-> None]
    /\ items = [s \in StreamNames |-> Unbound]
    /\ idx = [s \in StreamNames |-> 1]
    /\ alive = [s \in StreamNames |-> TRUE]
    /\ expired = [s \in StreamNames |-> FALSE]
    /\ found = [s \in StreamNames |-> FALSE]
    /\ fetch_tries = 0
    /\ raise_errors = [s \in StreamNames |-> s = "submissions"]
    /\ running = NoStream
    /\ ret = Retnothing
    /\ req = [s \in StreamNames |-> NoRequest]
    /\ \E o \in {"-", "submissions", "comments"} :
         params = [s \in StreamNames |-> IF s = "submissions" THEN o ELSE "-"]
    /\ counter = [s \in StreamNames |-> "PerformanceCounter"]
    /\ msPc = "off"
    /\ msI = 1
    /\ msJ = 1
    /\ yielded = NoSets
    /\ addedSince = [s \in StreamNames |-> [a \in ItemsOf(s) |-> {}]]
    /\ lastOut = [s \in StreamNames |-> 0]
    /\ errSeen = EmptyMap
    /\ invalidated = {}
    /\ unread = {}
    /\ bs = <<>>
    /\ bsOp = NoOp
    /\ PacersIdle

\* the first round of the generator, up to the page it fetches
NextCursor ==
    \/ \E s \in StreamNames : SingleNext(s)
    \/ \E s \in StreamNames : TimePasses(s)
    \/ \E s \in StreamNames : SelectCursor(s)
    \/ \E s \in StreamNames : \E p \in PagesOf(s) : FetchPage(s, p)
    \/ \E s \in StreamNames : FetchBadRequest(s)
    \/ \E s \in StreamNames : \E p \in PagesOf(s) : RefetchPage(s, p)

SpecCursor == InitCursor /\ [][NextCursor]_vars

\* --------------------------------------------------- a BoundedSet alone
\* the values of the model: enough of them to overflow the set
SetValues == 1..(SetMaxItems + 2)

streamVars == <<names, seen, disk, dirPresent, gpc, before, items, idx, alive,
                expired, found, fetch_tries, raise_errors, running, ret, req, params, counter,
                msPc, msI, msJ, yielded, addedSince, lastOut, errSeen, invalidated,
                unread, pacerVars>>

Op(o, x, r) == [op |-> o, arg |-> x, prev |-> bs, res |-> r]

\* lines 296-301
SetAdd(x) ==
    /\ bs' = BSAdd(bs, x, SetMaxItems)
    /\ bsOp' = Op("add", x, 0)
    /\ UNCHANGED streamVars

\* lines 279-282
SetContains(x) ==
    /\ bs' = ContainsEffect(bs, x)
    /\ bsOp' = Op("contains", x, IF ContainsResult(bs, x) THEN 1 ELSE 0)
    /\ UNCHANGED streamVars

\* lines 304-308
SetRemove(x) ==
    /\ bs' = BSRemove(bs, x)
    /\ bsOp' = Op("remove", x, 0)
    /\ UNCHANGED streamVars

\* lines 311-313
SetEmpty ==
    /\ bs # <<>>
    /\ bs' = <<>>
    /\ bsOp' = Op("empty", 0, 0)
    /\ UNCHANGED streamVars

\* lines 321-323
SetGetItem(k) ==
    /\ k \in (0 - Len(bs))..(Len(bs) - 1)
    /\ bs' = bs
    /\ bsOp' = Op("getitem", k, GetItem(bs, k))
    /\ UNCHANGED streamVars

\* lines 285-288: BoundedSet(max_items = SetMaxItems), no stream around it
InitSet ==
    /\ names = <<>>
    /\ seen = EmptyMap
    /\ disk = [s \in StreamNames |-> NoFile]
    /\ dirPresent = FALSE
    /\ gpc = [s \in StreamNames |-> "none"]
    /\ before = [s \in StreamNames |-> None]
    /\ items = [s \in StreamNames |-> Unbound]
    /\ idx = [s \in StreamNames |-> 1]
    /\ alive = [s \in StreamNames |-> TRUE]
    /\ expired = [s \in StreamNames |-> FALSE]
    /\ found = [s \in StreamNames |-> FALSE]
    /\ fetch_tries = 0
    /\ raise_errors = [s \in StreamNames |-> FALSE]
    /\ running = NoStream
    /\ ret = Retnothing
    /\ req = [s \in StreamNames |-> NoRequest]
    /\ params = [s \in StreamNames |-> "-"]
    /\ counter = [s \in StreamNames |-> "PerformanceCounter"]
    /\ msPc = "off"
    /\ msI = 1
    /\ msJ = 1
    /\ yielded = NoSets
    /\ addedSince = [s \in StreamNames |-> [a \in ItemsOf(s) |-> {}]]
    /\ lastOut = [s \in StreamNames |-> 0]
    /\ errSeen = EmptyMap
    /\ invalidated = {}
    /\ unread = {}
    /\ bs = <<>>
    /\ bsOp = NoOp
    /\ PacersIdle

NextSet ==
    \/ \E x \in SetValues : SetAdd(x)
    \/ \E x \in SetValues : SetContains(x)
    \/ \E x \in SetValues : SetRemove(x)
    \/ SetEmpty
    \/ \E k \in (0 - SetMaxItems)..(SetMaxItems - 1) : SetGetItem(k)

SpecSet == InitSet /\ [][NextSet]_vars

\* ------------------------------------------------------ the pacers alone
\* what a pacer never touches
idleVars == <<names, seen, disk, dirPresent, gpc, before, items, idx, alive,
              expired, found, fetch_tries, raise_errors, running, ret, req, params, counter,
              msPc, msI, msJ, yielded, addedSince, lastOut, errSeen, invalidated,
              unread, bs, bsOp>>

\* no listing is configured and no BoundedSet is in use
NoListings ==
    /\ names = <<>>
    /\ seen = EmptyMap
    /\ disk = [s \in StreamNames |-> NoFile]
    /\ dirPresent = FALSE
    /\ gpc = [s \in StreamNames |-> "none"]
    /\ before = [s \in StreamNames |-> None]
    /\ items = [s \in StreamNames |-> Unbound]
    /\ idx = [s \in StreamNames |-> 1]
    /\ alive = [s \in StreamNames |-> TRUE]
    /\ expired = [s \in StreamNames |-> FALSE]
    /\ found = [s \in StreamNames |-> FALSE]
    /\ fetch_tries = 0
    /\ raise_errors = [s \in StreamNames |-> FALSE]
    /\ running = NoStream
    /\ ret = Retnothing
    /\ req = [s \in StreamNames |-> NoRequest]
    /\ params = [s \in StreamNames |-> "-"]
    /\ counter = [s \in StreamNames |-> "PerformanceCounter"]
    /\ msPc = "off"
    /\ msI = 1
    /\ msJ = 1
    /\ yielded = NoSets
    /\ addedSince = [s \in StreamNames |-> [a \in ItemsOf(s) |-> {}]]
    /\ lastOut = [s \in StreamNames |-> 0]
    /\ errSeen = EmptyMap
    /\ invalidated = {}
    /\ unread = {}
    /\ bs = <<>>
    /\ bsOp = NoOp

\* the streams one MultiStream polls in a round
Streams == 6

\* lines 466-492: one round of MultiStream.streams(): every stream fetches its
\* page once (line 877), or twice when the first fetch ended in BadRequest
\* (line 887), so the round issues n requests and the server counts them
PerfRound(n) ==
    /\ perfPc = "round"
    /\ n \in Streams..(2 * Streams)
    /\ used' = used + n
    /\ perfPc' = "end_loop"
    /\ perfLast' = Polling
    /\ UNCHANGED <<current_wait, expVars, idleVars>>

\* the quota window ends while a round is under way
PerfQuotaReset ==
    /\ perfPc = "round"
    /\ used > 0
    /\ used' = 0
    /\ UNCHANGED <<current_wait, perfPc, perfLast, expVars, idleVars>>

\* line 493 with a PerformanceCounter: end_loop() reads the limits the last
\* response left, computes and sleeps; a sleep that reaches the reset time,
\* or a reset time already past, leaves a fresh window behind
PerfEndLoop(tr, lrd, j) ==
    /\ perfPc = "end_loop"
    /\ LET r == end_loop(used, tr, lrd, j, current_wait)
       IN  /\ current_wait' = r.wait
           /\ perfLast' = [outcome |-> r.outcome, time_remaining |-> tr,
                           last_run_duration |-> lrd, calls_used |-> used,
                           kept |-> IF r.outcome \in {"exhausted", "ValueError"}
                                    THEN current_wait ELSE 0,
                           slept |-> r.slept]
           /\ used' = IF tr <= 0 \/ (r.outcome \in {"slept", "exhausted"} /\ r.slept >= tr)
                      THEN 0 ELSE used
    /\ perfPc' = "round"
    /\ UNCHANGED <<expVars, idleVars>>

\* reset_timestamp - now as end_loop() can read it: past, zero, shorter than
\* min_wait, min_wait, and from a second to the whole window
TimesRemaining ==
    {0 - Seconds(1), 0, min_wait \div 2, min_wait, Seconds(1),
     Seconds(ratelimit_cooldown \div 2), Seconds(ratelimit_cooldown)}

\* now - last_time - current_wait as line 100 can compute it
RunDurations == {0 - Seconds(1), 0, Seconds(2)}

InitPerformance ==
    /\ NoListings
    /\ PerformanceCounterInit
    /\ ExponentialCounterInit
    /\ reddit = FALSE

NextPerformance ==
    \/ \E n \in Streams..(2 * Streams) : PerfRound(n)
    \/ PerfQuotaReset
    \/ \E tr \in TimesRemaining, lrd \in RunDurations, j \in {0, 1} : PerfEndLoop(tr, lrd, j)

SpecPerformance == InitPerformance /\ [][NextPerformance]_vars

\* --------------------------------------------- the ExponentialCounter alone
\* lines 200 and 212: random()*max_jitter - max_jitter/2 with max_jitter =
\* b / MAX_WAIT lies within b/32 of zero; j picks a value near either end or zero
ExpJitter(b, j) == j * (b \div 40)

Min(a, b) == IF a < b THEN a ELSE b

\* line 926, for a pacer whose flag is inc
MayIncrementAlways(inc) == TRUE

\* line 926: `if not self._counter.incremented`
MayIncrement(inc) == ~inc

\* throttle_level after k multiplications by 1.2 (line 256)
ThrottleLevel[k \in Nat] ==
    IF k = 0 THEN Seconds(MAX_WAIT) ELSE (ThrottleLevel[k - 1] * 6) \div 5

\* the multiplications by 1.2 the model follows
MaxThrottle == 2

Call(o, out, sl, rem, nr) ==
    [op |-> o, prev |-> expLast.op, outcome |-> out, slept |-> sl,
     remaining |-> rem, next_reset |-> nr]

\* lines 192-205: ExponentialCounter.increment()
ExpIncrement(j) ==
    /\ incremented' = TRUE
    /\ value' = IF throttle_level = Seconds(MAX_WAIT)
                THEN base + ExpJitter(base, j)
                ELSE throttle_level + ExpJitter(base, j)
    /\ base' = Min(base * 2, Seconds(MAX_WAIT))
    /\ UNCHANGED <<reset_value, throttle_level>>

\* lines 922-927 for a round that yielded nothing: increment() unless the
\* flag is set
ExpNoItems(j) ==
    /\ IF MayIncrement(incremented)
       THEN /\ ExpIncrement(j)
            /\ expLast' = Call("no items", "incremented", <<>>, 0, 0)
            /\ expRound' = TRUE
       ELSE /\ UNCHANGED <<base, value, reset_value, incremented, throttle_level, expRound>>
            /\ expLast' = Call("no items", "skipped", <<>>, 0, 0)
    /\ UNCHANGED <<reddit, perfVars, idleVars>>

\* lines 922-923 for a round that yielded items: reset() (lines 208-215),
\* which assigns _value and leaves value alone
ExpFoundItems(j) ==
    /\ base' = Seconds(MIN_WAIT)
    /\ reset_value' = Seconds(MIN_WAIT) + ExpJitter(Seconds(MIN_WAIT), j)
    /\ incremented' = FALSE
    /\ throttle_level' = Seconds(MAX_WAIT)
    /\ expLast' = Call("reset", "-", <<>>, 0, 0)
    /\ UNCHANGED <<value, reddit, expRound, perfVars, idleVars>>

\* lines 242-247: usage_rate, printed with one decimal, compared with 1.67:
\* above it from 1.65 on, below it otherwise; 0 when used is 0
RateAbove(u, elapsed) == u # 0 /\ elapsed > 0 /\ 100 * u >= 165 * elapsed

\* lines 226-267: _calculate_ratelimit_used() on the limits l read next_reset
\* seconds before the reset: what it does, the throttle_level it leaves, its sleep
Calculate(l, next_reset, level) ==
    LET elapsed == ratelimit_window - next_reset
    IN  IF l.used # 0 /\ (elapsed = 0 \/ l.remaining = 0)
        THEN [outcome |-> "ZeroDivisionError", level |-> level, slept |-> <<>>]
        ELSE IF RateAbove(l.used, elapsed) /\ l.remaining > 30
        THEN [outcome |-> "throttled", level |-> (level * 6) \div 5, slept |-> <<>>]
        ELSE IF ~RateAbove(l.used, elapsed) /\ level > Seconds(MAX_WAIT)
        THEN [outcome |-> "TypeError", level |-> Seconds(MAX_WAIT), slept |-> <<>>]
        ELSE IF l.remaining < RATELIMIT_EXHAUSTION
        THEN [outcome |-> "exhausted", level |-> level,
              slept |-> <<Seconds(l.remaining + 1)>>]
        ELSE [outcome |-> "nothing", level |-> level, slept |-> <<>>]

\* lines 218-223: ExponentialCounter.end_loop()
ExpEndLoop(l, next_reset) ==
    /\ incremented' = FALSE
    /\ expRound' = FALSE
    /\ IF reddit
       THEN LET c == Calculate(l, next_reset, throttle_level)
            IN  /\ c.outcome = "throttled" => throttle_level < ThrottleLevel[MaxThrottle]
                /\ throttle_level' = c.level
                /\ expLast' = Call("end_loop", c.outcome, <<value>> \o c.slept,
                                   l.remaining, next_reset)
       ELSE /\ throttle_level' = throttle_level
            /\ expLast' = Call("end_loop", "no reddit", <<value>>, l.remaining, next_reset)
    /\ UNCHANGED <<base, value, reset_value, reddit, perfVars, idleVars>>

\* reddit.auth.limits as end_loop() can read them: an untouched window, half
\* of it used, 20 calls left, none left, and a window with nothing counted
Limits ==
    {[used |-> 0, remaining |-> 1000], [used |-> 500, remaining |-> 500],
     [used |-> 980, remaining |-> 20], [used |-> 1000, remaining |-> 0],
     [used |-> 0, remaining |-> 0]}

\* reset_timestamp - now in seconds: the window just begun, half over, nearly over
NextResets == {ratelimit_window, ratelimit_window \div 2, 10}

\* ExponentialCounter(reddit = None), the default, or with a reddit instance
InitExponential ==
    /\ NoListings
    /\ PerformanceCounterInit
    /\ ExponentialCounterInit
    /\ reddit \in BOOLEAN

NextExponential ==
    \/ \E j \in {0 - 1, 0, 1} : ExpNoItems(j)
    \/ \E j \in {0 - 1, 0, 1} : ExpFoundItems(j)
    \/ \E l \in Limits, nr \in NextResets : ExpEndLoop(l, nr)

SpecExponential == InitExponential /\ [][NextExponential]_vars

\* ------------------------------------------------------- steps, by effect
\* the generator of s yields the StreamItem of item i
YieldStep(s, i) ==
    /\ running = s /\ running' = NoStream
    /\ ret'.kind = "item" /\ ret'.stream = s /\ ret'.item = i

\* the generator of s handles a BadRequest (lines 884-888)
BadRequestStep(s) == gpc[s] = "fetch" /\ gpc'[s] = "refetch"

\* the generator of s selects its cursor (lines 853-874)
SelectStep(s) == gpc[s] = "loop" /\ gpc'[s] = "fetch"

\* a transport or server error is raised by the fetch of line 879 and taken by
\* the handler of lines 893-898, or raised by the refetch of line 889
FetchErrorStep(s) ==
    \/ gpc[s] = "fetch" /\ alive[s] /\ ~alive'[s]
    \/ gpc[s] = "refetch" /\ ret'.kind = "exc" /\ ret'.exc = "Transport"

\* line 493: counter.end_loop() is called
EndLoopStep == msPc = "for" /\ msI > Len(names) /\ msI' = 1

\* lines 905-915: the for loop of the drain takes the item at the loop
\* position, whose edit time __get_edit_time has settled
ItemStep(s, i) ==
    /\ running = s /\ gpc[s] = "drain" /\ idx[s] <= Len(items[s])
    /\ items[s][idx[s]] = i
    /\ idx'[s] = idx[s] + 1

\* lines 922-927: the pacer operation a round ends with, for the value f of
\* has_found_items and the pacer's incremented flag inc
CounterCall(f, inc) ==
    IF f THEN "reset" ELSE IF ~inc THEN "increment" ELSE "none"

\* lines 917-928: the round of s ends, the terminator is yielded
TerminatorStep(s) == gpc[s] = "drain" /\ gpc'[s] = "atNone"

\* lines 877-879: the fetch of the round is issued
FetchStep(s) == gpc[s] = "fetch" /\ gpc'[s] # "fetch"

\* line 889: the refetch is issued
RefetchStep(s) == gpc[s] = "refetch" /\ gpc'[s] # "refetch"

\* lines 465-470: the generator at the loop position has yielded None, the
\* supervisor breaks out of its inner loop
TerminatorTaken ==
    /\ msPc = "next" /\ running = NoStream
    /\ ret.kind = "none" /\ ret.stream = names[msI]

\* ------------------------------------------------------------------ claims

\* C1 as stated: a lone stream never yields a second StreamItem with an
\* attribute it has yielded before, as long as fewer than max_items distinct
\* attributes were added since.
C1_YieldedOnce ==
    [][\A s \in StreamNames : \A a \in ItemsOf(s) :
         ~(/\ YieldStep(s, a)
           /\ a \in yielded[s]
           /\ Cardinality(addedSince[s][a]) < max_items)]_vars

\* C1 amended: a StreamItem with attribute a is yielded only when a is not in
\* the seen set, and a is in the seen set afterwards; so a is yielded again
\* only after it left the seen set (forget, BadRequest recovery, eviction).
C1_YieldedOnceWhileSeen ==
    [][\A s \in StreamNames : \A a \in ItemsOf(s) :
         YieldStep(s, a) => (a \notin Range(seen[s]) /\ a \in Range(seen'[s]))]_vars

\* C1 witness: an attribute yielded in an earlier round came back in a page
\* and was skipped.
C1_Witness ==
    \E s \in StreamNames :
        /\ running = s /\ gpc[s] = "drain" /\ idx[s] > 1 /\ idx[s] <= Len(items[s]) + 1
        /\ items[s][idx[s] - 1] \in yielded[s]
        /\ items[s][idx[s] - 1] \in Range(seen[s])
        /\ lastOut[s] # items[s][idx[s] - 1]

\* C2: an item a stream has recorded in its seen set and handed to
\* MultiStream.streams() is handed on to the consumer by the supervisor's
\* next step, also when logging or invalidation raises.
C2_InsertedIsDelivered ==
    [][(msPc = "next" /\ running = NoStream /\ ret.kind = "item") =>
           (msPc' = "handed" /\ ret' = ret)]_vars

\* C3: within one round (between two terminators) a stream yields items in
\* non-decreasing created_utc order; every fetched page is newest-first.
C3_RoundOrder ==
    [][\A s \in StreamNames : \A i \in ItemsOf(s) :
         (YieldStep(s, i) /\ lastOut[s] # 0) => lastOut[s] <= i]_vars

\* C4: a BadRequest for cursor c leaves the seen set without c, every other
\* member in place and in order; the generator then refetches with no cursor
\* in the same round and processes the page it gets.
C4_BadRequestForgetsCursor ==
    [][\A s \in StreamNames :
         /\ BadRequestStep(s) =>
              /\ before[s] \notin Range(seen'[s])
              /\ seen'[s] = Without(seen[s], before[s])
         /\ (gpc[s] = "refetch" /\ gpc'[s] # "refetch") =>
              /\ req'[s].call = "refetch" /\ req'[s].before = None
              /\ \/ gpc'[s] = "dead" /\ ret'.kind = "exc"
                 \/ gpc'[s] = "drain" /\ idx'[s] = 1 /\ Reverse(items'[s]) \in PagesOf(s)]_vars

\* C4 witness: seen = [x], BadRequest for x, the refetch returned [y]:
\* y is yielded and seen = [y].
C4_Witness ==
    \E s \in StreamNames :
        /\ gpc[s] = "atItem" /\ ret.kind = "item" /\ ret.stream = s
        /\ req[s].call = "refetch"
        /\ before[s] # None /\ before[s] # ret.item
        /\ seen[s] = <<ret.item>>

\* C5: when the timer has expired and the seen set is not empty, the cursor
\* selected is none and the timer is reset.
C5_FullFetchWhenExpired ==
    [][\A s \in StreamNames :
         (SelectStep(s) /\ expired[s] /\ Len(seen[s]) >= 1) =>
             (before'[s] = None /\ ~expired'[s])]_vars

C7_RebuildPreservesSeen ==
    msPc = "rebuilt" =>
        \A s \in Configured :
            /\ gpc[s] = "new"
            /\ params[s] = MsParams[s]
            /\ counter[s] = MsCounter
            /\ seen[s] = errSeen[s]

\* C8: no exception ends MultiStream.streams().
C8_NeverDiesOfAnException == msPc # "crashed"

\* C9: when streams() has exited on the consumer's close or on an interrupt,
\* the file of every configured listing holds every attribute of its seen
\* set, i.e. of the items yielded so far.
C9_SavedOnExit ==
    msPc \in {"closed", "interrupted"} =>
        \A s \in Configured :
            seen[s] # <<>> => (disk[s] # NoFile /\ Range(seen[s]) \subseteq Range(disk[s]))

\* C10: a BoundedSet never holds more than max_items values; add(x) of an
\* absent x on a full set evicts exactly the value at index 0 and appends x,
\* the rest keeping its order; add(x) of a present x moves x to the end and
\* keeps the size.
C10_BoundedAdd ==
    /\ Len(bs) <= SetMaxItems
    /\ bsOp.op = "add" =>
         LET x == bsOp.arg
             P == bsOp.prev
         IN  IF x \in Range(P)
             THEN bs = Append(Without(P, x), x) /\ Len(bs) = Len(P)
             ELSE IF Len(P) = SetMaxItems
                  THEN bs = Append(Tail(P), x) /\ Len(bs) = Len(P)
                  ELSE bs = Append(P, x)

\* C10 witness: an absent value was added to a full set and the value at
\* index 0 is gone.
C10_Witness ==
    /\ bsOp.op = "add"
    /\ Len(bsOp.prev) = SetMaxItems
    /\ bsOp.arg \notin Range(bsOp.prev)
    /\ bsOp.prev[1] \notin Range(bs)
    /\ bs[Len(bs)] = bsOp.arg

\* C11 as stated: a membership test leaves the ordered content of the set
\* as it was.
C11_ContainsHasNoEffect ==
    bsOp.op = "contains" => bs = bsOp.prev

\* C12: remove(x) of a present x leaves the set without x, one shorter, the
\* other values in their previous order, wherever x stood; remove(x) of an
\* absent x leaves the set unchanged.
C12_RemoveExactly ==
    bsOp.op = "remove" =>
        LET x == bsOp.arg
            P == bsOp.prev
        IN  IF x \in Range(P)
            THEN /\ x \notin Range(bs)
                 /\ bs = Without(P, x)
                 /\ Len(bs) = Len(P) - 1
            ELSE bs = P

\* C12 witness: the value in the middle of a set of three was removed.
C12_Witness ==
    /\ bsOp.op = "remove"
    /\ Len(bsOp.prev) = 3
    /\ bsOp.prev[2] = bsOp.arg
    /\ bs = <<bsOp.prev[1], bsOp.prev[3]>>

\* C13: for every seen set a stream reaches and every attribute,
\* remove_seen_attribute twice leaves the same ordered set as once.
C13_ForgetIdempotent ==
    \A s \in Configured : \A a \in ItemsOf(s) :
        RemoveSeenAttribute(RemoveSeenAttribute(seen[s], a), a)
            = RemoveSeenAttribute(seen[s], a)

\* C13 witness: an attribute was yielded and then forgotten (nothing was
\* added since, so it was not evicted) while another one stays in the set.
C13_Witness ==
    \E s \in Configured : \E a \in yielded[s] :
        /\ a \notin Range(seen[s])
        /\ addedSince[s][a] = {}
        /\ Len(seen[s]) = 1

C15_DiskOnlyAtShutdown ==
    [][/\ disk' # disk => (msPc = "shutdown" /\ msPc' = "shutdown" /\ seen' = seen)
       /\ \A s \in Configured :
            disk'[s] # NoFile => Range(disk'[s]) \subseteq yielded'[s]]_vars

\* C15 witness: a poll round is under way, the log stream has yielded a
\* second item and its file still holds the one attribute of the last save.
C15_Witness ==
    /\ msPc = "handed" /\ ret.stream = "log"
    /\ disk["log"] # NoFile /\ Len(disk["log"]) = 1
    /\ Len(seen["log"]) = 2

\* C16: with the adaptive pacer, the requests issued between two consecutive
\* quota resets never exceed the quota, whatever the number of streams
C16_WithinQuota == used <= ratelimit_requests

\* C17: after every end_loop() of the adaptive pacer, min_wait <= current_wait
\* <= time_remaining, and the interval slept is that current_wait
C17_WaitWithinBounds ==
    /\ min_wait <= current_wait
    /\ perfLast.outcome \in {"slept", "exhausted"} =>
         /\ current_wait <= perfLast.time_remaining
         /\ perfLast.slept = current_wait

\* C17, as the code has it: an end_loop() that computes a wait leaves
\* current_wait at min_wait or above, at time_remaining or below whenever
\* time_remaining is min_wait or more and at min_wait otherwise, and sleeps
\* exactly current_wait; one that finds the reserve exhausted sleeps
\* time_remaining and leaves current_wait as it was; one that raises does
\* not sleep
C17_WaitClamped ==
    /\ perfLast.outcome = "none" => current_wait = min_wait
    /\ perfLast.outcome = "slept" =>
         /\ min_wait <= current_wait
         /\ perfLast.time_remaining >= min_wait => current_wait <= perfLast.time_remaining
         /\ perfLast.time_remaining < min_wait => current_wait = min_wait
         /\ perfLast.slept = current_wait
    /\ perfLast.outcome = "exhausted" =>
         /\ perfLast.slept = perfLast.time_remaining
         /\ current_wait = perfLast.kept
    /\ perfLast.outcome \in {"ValueError", "ZeroDivisionError"} => perfLast.slept = 0

\* C17 witness: a wait was computed with the reset nearer than min_wait, after
\* a round that ran shorter than the pacer assumed
C17_Witness ==
    /\ perfLast.outcome = "slept"
    /\ perfLast.time_remaining > 0
    /\ perfLast.time_remaining < min_wait
    /\ perfLast.last_run_duration < 0
    /\ current_wait = min_wait

\* C18: after reset() the next end_loop() of the exponential pacer, with no
\* increment in between, sleeps min_wait up to jitter
C18_ResetSleepsMinWait ==
    (expLast.op = "end_loop" /\ expLast.prev = "reset") =>
        Abs(expLast.slept[1] - Seconds(MIN_WAIT)) <= Seconds(MIN_WAIT) \div 32

\* C19: once a stream has incremented the shared exponential pacer in a
\* round, a later increment attempt in that round leaves base and value
\* unchanged, whatever resets came in between
C19_IncrementOncePerRound ==
    [][(expLast'.op = "no items" /\ expRound) => (base' = base /\ value' = value)]_vars

\* C19, as the code has it: an increment attempt that finds the flag set
\* leaves base, value and the flag unchanged; the flag is set by an increment
\* and cleared by end_loop() and by reset(), so an attempt after a reset
\* increments again
C19_FlagGuardsIncrement ==
    [][/\ (expLast'.op = "no items" /\ incremented) =>
            (base' = base /\ value' = value /\ incremented')
       /\ (expLast'.op = "no items" /\ ~incremented) => incremented'
       /\ expLast'.op \in {"end_loop", "reset"} => ~incremented']_vars

\* C19 witness: after two rounds of backoff a stream incremented the pacer and
\* the next stream's attempt was skipped
C19_Witness ==
    /\ expLast.op = "no items"
    /\ expLast.outcome = "skipped"
    /\ expLast.prev = "no items"
    /\ base = Seconds(4 * MIN_WAIT)
    /\ incremented

\* C20: when end_loop() of the exponential pacer reads remaining below 30, it
\* sleeps at least until the quota reset
C20_SleepsToReset ==
    (expLast.op = "end_loop" /\ reddit /\ expLast.remaining < 30) =>
        /\ Len(expLast.slept) = 2
        /\ expLast.slept[2] >= Seconds(expLast.next_reset)

\* C22: with raise_errors false, a transport or server error raised by a
\* fetch, the first of the stream and the cursorless refetch included, marks
\* the stream dead and does not leave the generator
C22_FetchErrorSwallowed ==
    [][\A s \in StreamNames :
         (~raise_errors[s] /\ FetchErrorStep(s)) =>
             (~alive'[s] /\ gpc'[s] # "dead" /\ ret'.kind # "exc")]_vars

\* C23: a transport or server error leaves a SubredditStream only if the
\* stream was started with raise_errors true
C23_EscapesOnlyIfRaising ==
    (ret.kind = "exc" /\ ret.exc = "Transport") => raise_errors[ret.stream]

\* C24: a save that fails during the rebuild after a transport error does not
\* stop the supervisor, and the streams still hold the seen sets they had
\* when the error was caught
C24_FailedSaveKeepsPosition ==
    /\ msPc # "crashed"
    /\ msPc = "rebuilt" =>
         \A s \in Configured : disk[s] # errSeen[s] => seen[s] = errSeen[s]

\* C25: end_loop() is called only when every configured stream has emitted
\* its terminator for the round, and the for loop over the streams starts
\* over only through end_loop(), so that no stream is fetched twice between
\* two end_loop() calls
C25_EndLoopOncePerRound ==
    [][/\ EndLoopStep => \A s \in Configured : gpc[s] = "atNone"
       /\ msI' < msI => EndLoopStep]_vars

\* C21 (as stated): in the edited listing a (fullname, edited) pair is
\* emitted at most once
C21_OncePerPair ==
    [][\A p \in ItemsOf("edited") :
         YieldStep("edited", p) => p \notin yielded["edited"]]_vars

\* C21 (amended): in the edited listing an item whose (fullname, edited) pair
\* is in the seen set is not emitted and the seen set keeps its members; an
\* item whose pair is not in the seen set is emitted and its pair is in the
\* seen set afterwards, next to the pairs that were there when the set was
\* not full
C21_OncePerPairWhileSeen ==
    [][\A p \in ItemsOf("edited") :
         ItemStep("edited", p) =>
             IF p \in Range(seen["edited"])
             THEN /\ ~YieldStep("edited", p)
                  /\ Range(seen'["edited"]) = Range(seen["edited"])
             ELSE /\ YieldStep("edited", p)
                  /\ p \in Range(seen'["edited"])
                  /\ Len(seen["edited"]) < max_items =>
                         Range(seen["edited"]) \subseteq Range(seen'["edited"])]_vars

\* C21: an item emitted with edit time 1 has just been emitted again with edit
\* time 2, and both pairs are in the seen set
C21_Witness ==
    /\ ret = RetItem("edited", Pair(1, 2))
    /\ Pair(1, 1) \in yielded["edited"]
    /\ {Pair(1, 1), Pair(1, 2)} \subseteq Range(seen["edited"])

\* C26: at the end of a round of a lone stream on the default pacer (whose
\* incremented flag is never set), reset() is the operation requested if and
\* only if a StreamItem was yielded in the round
C26_ResetIffYielded ==
    [][\A s \in StreamNames :
         TerminatorStep(s) =>
             (CounterCall(found[s], FALSE) = "reset" <=> lastOut[s] # 0)]_vars

\* C27: an attribute enters the seen set of a stream only in the step that
\* yields the item it belongs to
C27_InsertedIsYielded ==
    [][\A s \in StreamNames : \A a \in ItemsOf(s) :
         (a \notin Range(seen[s]) /\ a \in Range(seen'[s])) =>
             \E i \in ItemsOf(s) : Attr(s, i) = a /\ YieldStep(s, i)]_vars

\* C28: the before cursor a stream of the edited listing sends to the listing
\* source is none or a bare fullname, never a (fullname, edited) pair
C28_CursorIsFullname ==
    \A s \in StreamNames :
        AttributeOf(s) = "edited" => ~IsTuple(req[s].before)

\* C29: __get_edit_time calls the refresh operation of an item at most
\* wait_for_edit times before the item is tested against the seen set
C29_AtMostWaitForEditFetches == fetch_tries <= wait_for_edit

\* C30 (as stated): every request a stream issues, the refetch included,
\* carries a cursor c that follows the rule for the seen set S at that moment:
\* none for an empty set, the only member of a set of one, none or one of the
\* three most recent members otherwise
C30_EveryFetchFollowsRule ==
    [][LET Rule(S, c) ==
               /\ Len(S) = 0 => c = None
               /\ Len(S) = 1 => c = S[1]
               /\ Len(S) >= 2 =>
                    \/ c = None
                    \/ \E k \in 0..(Len(S) - 1) : k >= Len(S) - 3 /\ c = S[k + 1]
       IN  \A s \in StreamNames :
               (FetchStep(s) \/ RefetchStep(s)) => Rule(seen[s], req'[s].before)]_vars

\* C30 (amended): the cursor selected at the top of a round is none for an
\* empty seen set, the only member of a set of one, and for a larger set none
\* when the timer has expired and one of the three most recent members
\* otherwise; the fetch of the round sends that cursor; the refetch after a
\* BadRequest sends none whatever the seen set holds
C30_CursorAmongLastThree ==
    [][LET Recent(S, c) ==
               \E k \in 0..(Len(S) - 1) : k >= Len(S) - 3 /\ c = S[k + 1]
           Selected(S, e, c) ==
               /\ Len(S) = 0 => c = None
               /\ Len(S) = 1 => c = S[1]
               /\ (Len(S) >= 2 /\ e) => c = None
               /\ (Len(S) >= 2 /\ ~e) => Recent(S, c)
       IN  \A s \in StreamNames :
               /\ SelectStep(s) => Selected(seen[s], expired[s], before'[s])
               /\ FetchStep(s) =>
                    /\ req'[s].before = before[s]
                    /\ before[s] = None \/ Recent(seen[s], before[s])
               /\ RefetchStep(s) => req'[s].before = None]_vars

\* C30: a fetch is about to be issued with the third most recent of four
\* seen attributes as cursor
C30_Witness ==
    \E s \in StreamNames :
        /\ gpc[s] = "fetch" /\ Len(seen[s]) = 4
        /\ before[s] = seen[s][2]

\* C31: the for loop of streams() moves from a stream to the next one only
\* when that stream has emitted its terminator, goes back to the first stream
\* only through end_loop(), and hands the consumer nothing but StreamItems of
\* the stream at the loop position
C31_InOrderEachOnce ==
    [][/\ msI' # msI => (EndLoopStep \/ (msI' = msI + 1 /\ TerminatorTaken))
       /\ msPc' = "handed" =>
            (ret'.kind = "item" /\ ret'.stream = names[msI'])]_vars

\* C32: when a round that emitted items ends, the attribute of the item
\* emitted last, if it is still in the seen set, is at its most recent
\* position
C32_EmittedAreMostRecent ==
    [][\A s \in StreamNames :
         (TerminatorStep(s) /\ lastOut[s] # 0
            /\ Attr(s, lastOut[s]) \in Range(seen[s])) =>
             GetItem(seen[s], 0 - 1) = Attr(s, lastOut[s])]_vars

\* C34: while streams() is going round its for loop, no configured listing
\* has a generator that is finished
C34_NoListingSilenced ==
    msPc = "for" => \A s \in Configured : gpc[s] # "dead"

\* C33: every request a stream has issued, the refetch after a BadRequest
\* included, carries the `only` parameter of the stream in its wire form
C33_EveryFetchCarriesParams ==
    \A s \in StreamNames :
        req[s].call # "-" => req[s].only = WireParams(params[s])

====
